---------------------------- MODULE Spec2Model ----------------------------
(***************************************************************************)
(* TableHunter (TableHunter_Script.py): extraction of table, view and      *)
(* stored-procedure names from SQL text by regular expressions.            *)
(*                                                                         *)
(* Texts and names are TLA+ strings, i.e. sequences of characters: Len,    *)
(* SubSeq, Head, Tail and \o act on them character by character.  The      *)
(* regular expressions of the script are translated into matchers over     *)
(* character positions (1-based); a matcher returns the position just      *)
(* after what it matched, and 0 when it does not match.                    *)
(***************************************************************************)
EXTENDS Naturals, Integers, Sequences, FiniteSets, TLC

VARIABLES
    pc,          \* the statement of main (or the function) that runs next
    input_file,  \* the text of the input file
    sql_text,    \* main: sql_text, the raw text read from the input file
    cleaned,     \* main: cleaned = clean_sql(sql_text)
    candidates,  \* main: objects = extract_objects(cleaned)
    objects,     \* main: objects = remove_redundancy(objects)
    categories,  \* main: categories, the dict label -> list of names
    sp_list,     \* main: sp_list
    config,      \* main: config, the dict load_config returned
    report,      \* the report file: "none", or what save_output wrote last
    shown,       \* the message boxes shown in the current run, in order
    log,         \* the log file: the messages written, in order
    exc,         \* the call that raised in the current run, "none" if none did
    hash_seed,   \* the salt of the process's string hashes
    run,         \* which run of the pipeline this is (1 or 2)
    first        \* the categories and sp_list run 1 ended with, once run 2 starts

vars == <<pc, input_file, sql_text, cleaned, candidates, objects, categories,
          sp_list, config, report, shown, log, exc, hash_seed, run, first>>

-----------------------------------------------------------------------------
(* Characters *)

LowerLetters == "abcdefghijklmnopqrstuvwxyz"
UpperLetters == "ABCDEFGHIJKLMNOPQRSTUVWXYZ"
DigitChars == "0123456789"

Chars(s) == { SubSeq(s, i, i) : i \in 1..Len(s) }

\* The elements of a list.
Range(xs) == { xs[i] : i \in DOMAIN xs }

LowerSet == Chars(LowerLetters)
UpperSet == Chars(UpperLetters)
DigitSet == Chars(DigitChars)

\* str.lower() and str.upper() on one (ASCII) character.
ToLower == [ c \in UpperSet |->
               LET i == CHOOSE k \in 1..Len(UpperLetters) : SubSeq(UpperLetters, k, k) = c
               IN  SubSeq(LowerLetters, i, i) ]
ToUpper == [ c \in LowerSet |->
               LET i == CHOOSE k \in 1..Len(LowerLetters) : SubSeq(LowerLetters, k, k) = c
               IN  SubSeq(UpperLetters, i, i) ]

LowerChar(c) == IF c \in UpperSet THEN ToLower[c] ELSE c
UpperChar(c) == IF c \in LowerSet THEN ToUpper[c] ELSE c

RECURSIVE Lower(_)
Lower(s) == IF s = "" THEN "" ELSE LowerChar(Head(s)) \o Lower(Tail(s))

RECURSIVE Upper(_)
Upper(s) == IF s = "" THEN "" ELSE UpperChar(Head(s)) \o Upper(Tail(s))

\* The character at position i of t ("" outside the text).
At(t, i) == IF i >= 1 /\ i <= Len(t) THEN SubSeq(t, i, i) ELSE ""

\* The character classes of the patterns, over the ASCII characters: \s,
\* [a-z0-9_\.] under re.IGNORECASE, and [\w\.$].
SpaceChars == {" ", "\t", "\n", "\r", "\f"}
IdentChars == LowerSet \cup UpperSet \cup DigitSet \cup {"_", "."}
ProcIdentChars == LowerSet \cup UpperSet \cup DigitSet \cup {"_", ".", "$"}

\* \s
IsSpace(c) == c \in SpaceChars
\* \w
IsWord(c) == c \in LowerSet \/ c \in UpperSet \/ c \in DigitSet \/ c = "_"

-----------------------------------------------------------------------------
(* clean_sql *)

\* Whether t holds w at position i.
HasAt(t, w, i) ==
    /\ i >= 1
    /\ i + Len(w) - 1 <= Len(t)
    /\ SubSeq(t, i, i + Len(w) - 1) = w

\* The first position j >= i where t holds w, 0 when there is none.
RECURSIVE Find(_, _, _)
Find(t, w, i) ==
    IF i + Len(w) - 1 > Len(t) THEN 0
    ELSE IF HasAt(t, w, i) THEN i
    ELSE Find(t, w, i + 1)

\* re.sub(r'/\*.*?\*/', '', t, flags=re.DOTALL) from position i on: a match starts
\* at the leftmost "/*" that has a "*/" after it and ends with the nearest such
\* "*/" (.*? is lazy and, with DOTALL, crosses line ends); matches do not overlap.
RECURSIVE StripBlockComments(_, _)
StripBlockComments(t, i) ==
    IF i > Len(t) THEN ""
    ELSE LET close == IF HasAt(t, "/*", i) THEN Find(t, "*/", i + 2) ELSE 0
         IN  IF close # 0 THEN StripBlockComments(t, close + 2)
             ELSE At(t, i) \o StripBlockComments(t, i + 1)

\* The end of the line that position i is on: the position of the next "\n",
\* Len(t) + 1 when there is none ('.' matches everything but "\n").
RECURSIVE LineEnd(_, _)
LineEnd(t, i) ==
    IF i > Len(t) \/ At(t, i) = "\n" THEN i ELSE LineEnd(t, i + 1)

\* re.sub(r'--.*', '', t) from position i on.
RECURSIVE StripLineComments(_, _)
StripLineComments(t, i) ==
    IF i > Len(t) THEN ""
    ELSE IF HasAt(t, "--", i) THEN StripLineComments(t, LineEnd(t, i))
    ELSE At(t, i) \o StripLineComments(t, i + 1)

clean_sql(t) == Lower(StripLineComments(StripBlockComments(t, 1), 1))

-----------------------------------------------------------------------------
(* Pieces of the regular expressions *)

\* The position after the longest run of characters of class that starts at i.
RECURSIVE RunEnd(_, _, _)
RunEnd(t, i, class) ==
    IF i <= Len(t) /\ At(t, i) \in class THEN RunEnd(t, i + 1, class) ELSE i

\* A class repeated with +, at i: the position after the run, 0 when the run is
\* empty or i is 0 (what comes before did not match).  Greedy matching takes the
\* whole run; in these patterns nothing that follows a run can start with a
\* character of the run's class, so no shorter run is ever tried with success.
Plus(t, i, class) ==
    IF i # 0 /\ At(t, i) \in class THEN RunEnd(t, i, class) ELSE 0

\* A literal word w (lower case) at i, letter case ignored (re.IGNORECASE).
Lit(t, w, i) ==
    IF /\ i # 0
       /\ i + Len(w) - 1 <= Len(t)
       /\ LowerChar(At(t, i)) = Head(w)
       /\ Lower(SubSeq(t, i, i + Len(w) - 1)) = w
    THEN i + Len(w) ELSE 0

\* w\s+
Kw(t, w, i) == Plus(t, Lit(t, w, i), SpaceChars)

\* \b before position i.
WordBoundary(t, i) == IsWord(At(t, i - 1)) # IsWord(At(t, i))

\* The start of a capture group (class+) at i: i when a character of the class is
\* there, else 0.
GroupAt(t, i, class) == IF i # 0 /\ At(t, i) \in class THEN i ELSE 0

\* The first position of a tuple of attempts that is not 0: the regex engine tries
\* the alternatives in order and keeps the first that lets the rest match.
FirstOf(attempts) ==
    LET ok == { k \in DOMAIN attempts : attempts[k] # 0 }
    IN  IF ok = {} THEN 0 ELSE attempts[CHOOSE k \in ok : \A j \in ok : k <= j]

\* (?:transient\s+|temporary\s+)
Modifier(t, i) == FirstOf(<<Kw(t, "transient", i), Kw(t, "temporary", i)>>)

\* (?:transient\s+|temporary\s+)?([a-z0-9_\.]+): the optional group is tried
\* first, and skipped when no identifier follows it.
ModifiedIdent(t, i) ==
    FirstOf(<<GroupAt(t, Modifier(t, i), IdentChars), GroupAt(t, i, IdentChars)>>)

\* (?:or\s+replace\s+)
OrReplace(t, i) == Kw(t, "replace", Kw(t, "or", i))

\* (?:transient\s+|temporary\s+)?table\s+([a-z0-9_\.]+)
ModifiedTable(t, i) ==
    FirstOf(<<GroupAt(t, Kw(t, "table", Modifier(t, i)), IdentChars),
              GroupAt(t, Kw(t, "table", i), IdentChars)>>)

-----------------------------------------------------------------------------
(* extract_objects *)

BLOCK_KEYWORDS == {
    "IF","EXISTS","THEN","ELSE","END","CASE","WHEN","ON","USING","VALUES",
    "SELECT","WHERE","GROUP","ORDER","HAVING","BY","AS",
    "AND","OR","NOT","IN","IS","NULL","LIKE","SET",
    "BEGIN","DECLARE","RETURN","LOOP","FOR","WHILE",
    "BETWEEN","DISTINCT","TOP","LIMIT","FETCH","OVER",
    "PARTITION","INNER","LEFT","RIGHT","FULL","OUTER","CROSS",
    "UNION","EXCEPT","INTERSECT","ALL","WITH",
    "DESC","ASC","INTO" }

\* The alternatives of pattern, numbered in the order they are written.
Rules == 1..11

\* Alternative k of pattern at position i: the position where its capture group
\* starts, 0 when the alternative does not match at i.
RuleAt(t, i, k) ==
    IF ~WordBoundary(t, i) THEN 0
    ELSE CASE k = 1  -> GroupAt(t, Kw(t, "from", i), IdentChars)
           [] k = 2  -> GroupAt(t, Kw(t, "join", i), IdentChars)
           [] k = 3  -> GroupAt(t, Kw(t, "update", i), IdentChars)
           [] k = 4  -> ModifiedIdent(t, Kw(t, "into", Kw(t, "insert", i)))
           [] k = 5  -> ModifiedIdent(t, Kw(t, "into", Kw(t, "merge", i)))
           [] k = 6  -> GroupAt(t, Kw(t, "from", Kw(t, "delete", i)), IdentChars)
           [] k = 7  -> ModifiedIdent(t, Kw(t, "table", Kw(t, "truncate", i)))
           [] k = 8  -> ModifiedIdent(t, Kw(t, "table", Kw(t, "alter", i)))
           [] k = 9  -> FirstOf(<<ModifiedTable(t, OrReplace(t, Kw(t, "create", i))),
                                  ModifiedTable(t, Kw(t, "create", i))>>)
           [] k = 10 -> FirstOf(<<GroupAt(t, Kw(t, "view", OrReplace(t, Kw(t, "create", i))),
                                          IdentChars),
                                  GroupAt(t, Kw(t, "view", Kw(t, "create", i)), IdentChars)>>)
           [] k = 11 -> ModifiedIdent(t, Kw(t, "table", Kw(t, "drop", i)))

\* The alternation of the rules in K at position i: the capture start of the first
\* alternative that matches, 0 when none does.  Every alternative starts with \b
\* and then with the first letter of a keyword.
PatternAt(t, i, K) ==
    IF ~WordBoundary(t, i) \/ LowerChar(At(t, i)) \notin Chars("fjuimdtac") THEN 0
    ELSE LET ok == { k \in K : RuleAt(t, i, k) # 0 }
         IN  IF ok = {} THEN 0
             ELSE RuleAt(t, i, CHOOSE k \in ok : \A j \in ok : k <= j)

\* The first position from i on where the alternation of the rules in K matches,
\* 0 when there is none: the search tries the positions from left to right.
NextMatch(t, i, K) ==
    LET found == { j \in i..Len(t) : PatternAt(t, j, K) # 0 }
    IN  IF found = {} THEN 0 ELSE CHOOSE j \in found : \A h \in found : j <= h

\* re.search in place of re.findall: the first match only.
FindAll_first_only(t, i, K) ==
    LET s == NextMatch(t, i, K)
        p == PatternAt(t, s, K)
    IN  IF s = 0 THEN <<>>
        ELSE <<[start |-> s, group |-> p, end |-> RunEnd(t, p, IdentChars)]>>

\* re.findall of the alternation of the rules in K, from position i on: the
\* successive matches, left to right, each with the position where it starts,
\* where its capture group starts and where it ends.  A match ends with its
\* identifier and the search resumes right after it, so matches never overlap.
RECURSIVE FindAll(_, _, _)
FindAll(t, i, K) ==
    LET s == NextMatch(t, i, K)
        p == PatternAt(t, s, K)
        e == RunEnd(t, p, IdentChars)
    IN  IF s = 0 THEN <<>>
        ELSE <<[start |-> s, group |-> p, end |-> e]>> \o FindAll(t, e, K)

\* The text a match captured.
Captured(t, m) == SubSeq(t, m.group, m.end - 1)

\* str.strip()
RECURSIVE LStrip(_)
LStrip(s) == IF s # "" /\ IsSpace(Head(s)) THEN LStrip(Tail(s)) ELSE s
RECURSIVE RStrip(_)
RStrip(s) ==
    IF s # "" /\ IsSpace(At(s, Len(s))) THEN RStrip(SubSeq(s, 1, Len(s) - 1)) ELSE s
Strip(s) == RStrip(LStrip(s))

\* str.replace(c, "") for a single character c.
RECURSIVE Remove(_, _)
Remove(s, c) ==
    IF s = "" THEN ""
    ELSE (IF Head(s) = c THEN "" ELSE Head(s)) \o Remove(Tail(s), c)

\* s.split(".")[-1]: what follows the last dot, all of s when it has no dot.
RECURSIVE LastSegment(_)
LastSegment(s) ==
    IF s = "" THEN ""
    ELSE IF At(s, Len(s)) = "." THEN ""
    ELSE LastSegment(SubSeq(s, 1, Len(s) - 1)) \o At(s, Len(s))

\* obj.strip().replace(";", "").upper()
ObjectName(obj) == Upper(Remove(Strip(obj), ";"))

\* The filter of line 80 testing cleaned itself instead of its final segment.
ObjectsOf_whole_name(t, matches) ==
    { name \in { ObjectName(Captured(t, matches[i])) : i \in DOMAIN matches } :
        name \notin BLOCK_KEYWORDS }

\* The set objects built from the matches (lines 75 to 82).
ObjectsOf(t, matches) ==
    { name \in { ObjectName(Captured(t, matches[i])) : i \in DOMAIN matches } :
        LastSegment(name) \notin BLOCK_KEYWORDS }

extract_objects(t) == ObjectsOf(t, FindAll(t, 1, Rules))

-----------------------------------------------------------------------------
(* extract_stored_procedures *)

\* The characters of procedure names in code point order; Code orders them as
\* Python compares the characters of two strings.
AsciiOrder == "$.0123456789ABCDEFGHIJKLMNOPQRSTUVWXYZ_abcdefghijklmnopqrstuvwxyz"
Code == [ c \in Chars(AsciiOrder) |->
            CHOOSE k \in 1..Len(AsciiOrder) : SubSeq(AsciiOrder, k, k) = c ]

\* a < b for two strings, as Python compares them.
RECURSIVE StrLess(_, _)
StrLess(a, b) ==
    IF b = "" THEN FALSE
    ELSE IF a = "" THEN TRUE
    ELSE IF Head(a) # Head(b) THEN Code[Head(a)] < Code[Head(b)]
    ELSE StrLess(Tail(a), Tail(b))

\* The list xs with x inserted before the first element greater than x.
RECURSIVE Insert(_, _)
Insert(xs, x) ==
    IF xs = <<>> THEN <<x>>
    ELSE IF StrLess(x, Head(xs)) THEN <<x>> \o xs
    ELSE <<Head(xs)>> \o Insert(Tail(xs), x)

\* sorted(xs) for a list of strings.
RECURSIVE sorted(_)
sorted(xs) ==
    IF xs = <<>> THEN <<>> ELSE Insert(sorted(SubSeq(xs, 1, Len(xs) - 1)), xs[Len(xs)])

\* The strings of S in ascending order.
RECURSIVE Ascending(_)
Ascending(S) ==
    IF S = {} THEN <<>>
    ELSE LET m == CHOOSE x \in S : \A y \in S : y = x \/ StrLess(x, y)
         IN  <<m>> \o Ascending(S \ {m})

\* The list xs rearranged: k picks the first element, k \div Len(xs) goes on with
\* the rest.
RECURSIVE Permute(_, _)
Permute(xs, k) ==
    IF xs = <<>> THEN <<>>
    ELSE LET i == (k % Len(xs)) + 1
         IN  <<xs[i]>> \o Permute(SubSeq(xs, 1, i - 1) \o SubSeq(xs, i + 1, Len(xs)),
                                  k \div Len(xs))

\* The order in which a for loop (or list, or sorted) goes through the set S of
\* strings: it follows the strings' hashes, which the process salts with a seed
\* drawn at its start, so it is fixed within a run and differs between runs.
IterationOrder(S) == Permute(Ascending(S), hash_seed)

\* create_pattern, create\s+(or\s+replace\s+)?procedure\s+([\w\.$]+), at i: the
\* start of the name, 0 when there is no match at i (a match starts with a c).
CreateProcedureAt(t, i) ==
    IF LowerChar(At(t, i)) # "c" THEN 0
    ELSE FirstOf(<<GroupAt(t, Kw(t, "procedure", OrReplace(t, Kw(t, "create", i))),
                           ProcIdentChars),
                   GroupAt(t, Kw(t, "procedure", Kw(t, "create", i)), ProcIdentChars)>>)

\* call_pattern, \b(?:exec|execute|call)\s+([\w\.$]+), at i (a match starts
\* with an e or a c).
CallAt(t, i) ==
    IF ~WordBoundary(t, i) \/ LowerChar(At(t, i)) \notin {"e", "c"} THEN 0
    ELSE FirstOf(<<GroupAt(t, Kw(t, "exec", i), ProcIdentChars),
                   GroupAt(t, Kw(t, "execute", i), ProcIdentChars),
                   GroupAt(t, Kw(t, "call", i), ProcIdentChars)>>)

ProcPatternAt(t, i, pattern) ==
    IF pattern = "create" THEN CreateProcedureAt(t, i) ELSE CallAt(t, i)

\* The first position from i on where the pattern matches, 0 when there is none.
NextProcMatch(t, i, pattern) ==
    LET found == { j \in i..Len(t) : ProcPatternAt(t, j, pattern) # 0 }
    IN  IF found = {} THEN 0 ELSE CHOOSE j \in found : \A h \in found : j <= h

\* re.findall of create_pattern or of call_pattern from position i on: the names
\* captured by the successive matches.
RECURSIVE FindAllProcs(_, _, _)
FindAllProcs(t, i, pattern) ==
    LET s == NextProcMatch(t, i, pattern)
        p == ProcPatternAt(t, s, pattern)
        e == RunEnd(t, p, ProcIdentChars)
    IN  IF s = 0 THEN <<>>
        ELSE <<SubSeq(t, p, e - 1)>> \o FindAllProcs(t, e, pattern)

\* The two loops adding sp instead of sp.upper().
ProceduresOf_no_upper(t) ==
    LET created == FindAllProcs(t, 1, "create")
        called  == FindAllProcs(t, 1, "call")
    IN  Range(created) \cup Range(called)

\* The set procedures once both loops have run (lines 124 to 132).
ProceduresOf(t) ==
    LET created == FindAllProcs(t, 1, "create")
        called  == FindAllProcs(t, 1, "call")
    IN  { Upper(m) : m \in Range(created) } \cup { Upper(m) : m \in Range(called) }

\* return list(procedures) instead of sorted(procedures).
extract_stored_procedures_unsorted(t) == IterationOrder(ProceduresOf(t))

extract_stored_procedures(t) == sorted(IterationOrder(ProceduresOf(t)))

-----------------------------------------------------------------------------
(* remove_redundancy *)

\* "." in obj
HasDot(obj) == Find(obj, ".", 1) # 0

\* remove_redundancy starting from set(objects) instead of set(schema_objs).
remove_redundancy_from_all(objs) ==
    LET schema_objs   == { obj \in objs : HasDot(obj) }
        noschema_objs == { obj \in objs : ~HasDot(obj) }
    IN  objs \cup
        { obj \in noschema_objs :
            ~\E schema_obj \in schema_objs : LastSegment(schema_obj) = obj }

\* remove_redundancy testing obj in schema_obj instead of comparing the final
\* segment.
remove_redundancy_substring(objs) ==
    LET schema_objs   == { obj \in objs : HasDot(obj) }
        noschema_objs == { obj \in objs : ~HasDot(obj) }
    IN  schema_objs \cup
        { obj \in noschema_objs :
            ~\E schema_obj \in schema_objs : Find(schema_obj, obj, 1) # 0 }

remove_redundancy(objs) ==
    LET schema_objs   == { obj \in objs : HasDot(obj) }
        noschema_objs == { obj \in objs : ~HasDot(obj) }
    IN  schema_objs \cup
        { obj \in noschema_objs :
            ~\E schema_obj \in schema_objs : LastSegment(schema_obj) = obj }

-----------------------------------------------------------------------------
(* categorize *)

\* A dict is the list of its items, [key, value], in insertion order.
EmptyDict == <<>>

Keys(dict) == { dict[i].key : i \in DOMAIN dict }

\* dict[key]
Get(dict, key) == dict[CHOOSE i \in DOMAIN dict : dict[i].key = key].value

\* dict[key] = value
SetItem(dict, key, value) ==
    IF key \in Keys(dict)
    THEN [ i \in DOMAIN dict |->
             IF dict[i].key = key THEN [key |-> key, value |-> value] ELSE dict[i] ]
    ELSE Append(dict, [key |-> key, value |-> value])

\* categories[label].append(full_obj) on a defaultdict(list)
AppendTo(dict, label, full_obj) ==
    SetItem(dict, label,
            Append(IF label \in Keys(dict) THEN Get(dict, label) ELSE <<>>, full_obj))

\* str.startswith
StartsWith(s, prefix) == HasAt(s, prefix, 1)

\* categorize testing the prefixes on full_obj instead of table_name.
CategoryOf_full_name(full_obj) ==
    IF StartsWith(full_obj, "LP_") THEN "LP_OBJECTS"
    ELSE IF StartsWith(full_obj, "DDT_") THEN "DDT_OBJECTS"
    ELSE IF StartsWith(full_obj, "E_") THEN "E_OBJECTS"
    ELSE IF StartsWith(full_obj, "SA_") THEN "SA_OBJECTS"
    ELSE IF StartsWith(full_obj, "DW_") THEN "DW_OBJECTS"
    ELSE "OTHER Table/Views/SP's"

\* The label the if/elif chain of categorize picks for full_obj.
CategoryOf(full_obj) ==
    LET table_name == LastSegment(full_obj)
    IN  IF StartsWith(table_name, "LP_") THEN "LP_OBJECTS"
        ELSE IF StartsWith(table_name, "DDT_") THEN "DDT_OBJECTS"
        ELSE IF StartsWith(table_name, "E_") THEN "E_OBJECTS"
        ELSE IF StartsWith(table_name, "SA_") THEN "SA_OBJECTS"
        ELSE IF StartsWith(table_name, "DW_") THEN "DW_OBJECTS"
        ELSE "OTHER Table/Views/SP's"

\* The loop of categorize over the objects in the given order, from the dict
\* dict on.
RECURSIVE CategorizeInto(_, _)
CategorizeInto(dict, order) ==
    IF order = <<>> THEN dict
    ELSE CategorizeInto(AppendTo(dict, CategoryOf(Head(order)), Head(order)), Tail(order))

categorize(objs) == CategorizeInto(EmptyDict, IterationOrder(objs))

-----------------------------------------------------------------------------
(* save_output *)

\* What save_output writes after the title line: per category, in the dict's
\* order, the header's label and count and the sorted items.
save_output(dict) ==
    [ i \in DOMAIN dict |->
        [ category |-> dict[i].key,
          count    |-> Len(dict[i].value),
          items    |-> sorted(dict[i].value) ] ]

-----------------------------------------------------------------------------
(* load_config *)

\* line.strip().split("=", 1) of a line that holds "=": what is before the first
\* "=" and what is after it.
BeforeEq(line) == SubSeq(line, 1, Find(line, "=", 1) - 1)
AfterEq(line) == SubSeq(line, Find(line, "=", 1) + 1, Len(line))

\* The loop of load_config over the lines of the file, from the dict dict on.
RECURSIVE LoadLines(_, _)
LoadLines(dict, lines) ==
    IF lines = <<>> THEN dict
    ELSE LET line == Head(lines)
         IN  LoadLines(IF Find(line, "=", 1) # 0
                       THEN SetItem(dict, Strip(BeforeEq(Strip(line))),
                                    Strip(AfterEq(Strip(line))))
                       ELSE dict,
                       Tail(lines))

load_config(lines) == LoadLines(EmptyDict, lines)

\* The keys main reads from config, in the order it reads them.
RequiredKeys == <<"input_file_path", "output_folder_path", "output_file_name">>

-----------------------------------------------------------------------------
(* Inputs *)

\* The texts made of at most n pieces of vocabulary, one after the other.
RECURSIVE Texts(_, _)
Texts(vocabulary, n) ==
    IF n = 0 THEN {""}
    ELSE LET shorter == Texts(vocabulary, n - 1)
         IN  shorter \cup { t \o w : t \in shorter, w \in vocabulary }

\* The subsets of U with at most n elements.
RECURSIVE SetsUpTo(_, _)
SetsUpTo(U, n) ==
    IF n = 0 THEN {{}}
    ELSE LET smaller == SetsUpTo(U, n - 1)
         IN  smaller \cup { S \cup {x} : S \in smaller, x \in U }

\* The lists made of some of the elements of the list xs, in the order of xs.
RECURSIVE SubLists(_)
SubLists(xs) ==
    IF xs = <<>> THEN {<<>>}
    ELSE LET rest == SubLists(Tail(xs))
         IN  rest \cup { <<Head(xs)>> \o r : r \in rest }

\* Raw texts with comment markers (clean_sql alone).
MaxCommentPieces == 5
CommentVocabulary == {"/", "*", "-", "/*", "*/", "\n", "A"}
CommentTexts == Texts(CommentVocabulary, MaxCommentPieces)

\* Raw texts with comments around table references (clean_sql, then
\* extract_objects).
MaxCommentedPieces == 5
CommentedVocabulary == {"from ", "x", "y", "/*", "*/", "--", "\n"}
CommentedTexts == Texts(CommentedVocabulary, MaxCommentedPieces)

\* Texts with the keyword phrases of the eleven rules (extract_objects alone).
MaxSqlPieces == 3
SqlVocabulary ==
    {"from ", "join ", "update ", "insert into ", "merge into temporary ",
     "delete from ", "truncate table ", "alter table ",
     "create or replace transient table ", "create view ", "drop table ",
     "join y ", "x", "s.", "Where"}
SqlTexts == Texts(SqlVocabulary, MaxSqlPieces)

\* Texts with procedure definitions and calls (extract_stored_procedures alone).
MaxProcPieces == 4
ProcVocabulary ==
    {"create procedure ", "create or replace procedure ", "exec ", "execute ",
     "call ", "sp ", "SP ", "a$."}
ProcTexts == Texts(ProcVocabulary, MaxProcPieces)

\* Sets of names as extract_objects returns them (remove_redundancy alone).
MaxCandidates == 3
Qualifiers == {"", "S.", "T.", "S.T.", ".", "A.", "A"}
Leaves == {"A", "B", "S", ""}
CandidateNames == { q \o l : q \in Qualifiers, l \in Leaves } \ {""}
CandidateSets == SetsUpTo(CandidateNames, MaxCandidates)

\* Sets of names with the category prefixes (categorize alone).
MaxObjects == 2
Prefixes == {"LP_", "DDT_", "E_", "SA_", "DW_", ""}
Stems == {"DW_STAGE", "T"}
ObjectNames == { q \o p \o st : q \in {"", "X.", "LP_."}, p \in Prefixes, st \in Stems }
ObjectSets == SetsUpTo(ObjectNames, MaxObjects)

\* The input files and the config files of main.
MaxFilePieces == 3
FileVocabulary == {"from x ", "join s.x ", "from lp_y ", "exec sp ", "--", "\n"}
InputFiles == Texts(FileVocabulary, MaxFilePieces)
ConfigFiles ==
    SubLists(<<"input_file_path=in.sql", "# report", "output_folder_path = out",
               "output_file_name=report.txt">>)

\* The texts the pipeline is run twice on.
MaxRerunPieces == 3
RerunVocabulary == {"from x ", "join y ", "from s.x ", "join lp_y ", "exec sp ", "call sq ", "--"}
RerunTexts == Texts(RerunVocabulary, MaxRerunPieces)

\* The seeds of a process's string hashes.
MaxSeed == 1
Seeds == 0..MaxSeed

-----------------------------------------------------------------------------
(* The steps of main *)

\* A statement of the try block raises: control goes to the except clause.
Raise(call) ==
    /\ exc' = call
    /\ pc' = "except"

\* Lines 150 to 154: config = load_config("config.txt"); open raises when the
\* file is missing.
LoadConfig ==
    /\ pc = "load_config"
    /\ \/ /\ Raise("load_config")
          /\ log' = log \o <<"Started">>
          /\ UNCHANGED config
       \/ \E file \in ConfigFiles :
            /\ config' = load_config(file)
            /\ log' = log \o <<"Started", "Config loaded">>
            /\ pc' = "read_config"
            /\ UNCHANGED exc
    /\ UNCHANGED <<input_file, sql_text, cleaned, candidates, objects, categories,
                   sp_list, report, shown, hash_seed, run, first>>

\* Lines 156 to 158: the three config[...] lookups; a missing key raises KeyError.
ReadConfig ==
    /\ pc = "read_config"
    /\ IF \A i \in DOMAIN RequiredKeys : RequiredKeys[i] \in Keys(config)
       THEN pc' = "makedirs" /\ UNCHANGED exc
       ELSE Raise("config")
    /\ UNCHANGED <<input_file, sql_text, cleaned, candidates, objects, categories,
                   sp_list, config, report, shown, log, hash_seed, run, first>>

\* Lines 160 to 161: os.makedirs(output_folder, exist_ok=True), which can raise.
MakeDirs ==
    /\ pc = "makedirs"
    /\ \/ pc' = "read_input" /\ UNCHANGED exc
       \/ Raise("makedirs")
    /\ UNCHANGED <<input_file, sql_text, cleaned, candidates, objects, categories,
                   sp_list, config, report, shown, log, hash_seed, run, first>>

\* Lines 163 to 165: open and read the input file; open raises when it is missing
\* or unreadable.
ReadInput ==
    /\ pc = "read_input"
    /\ log' = log \o <<"Reading SQL file">>
    /\ \/ sql_text' = input_file /\ pc' = "clean_sql" /\ UNCHANGED exc
       \/ Raise("open") /\ UNCHANGED sql_text
    /\ UNCHANGED <<input_file, cleaned, candidates, objects, categories, sp_list,
                   config, report, shown, hash_seed, run, first>>

\* Line 167.
CleanSql ==
    /\ pc = "clean_sql"
    /\ cleaned' = clean_sql(sql_text)
    /\ pc' = "extract_objects"
    /\ UNCHANGED <<input_file, sql_text, candidates, objects, categories, sp_list,
                   config, report, shown, log, exc, hash_seed, run, first>>

\* Line 168.
ExtractObjects ==
    /\ pc = "extract_objects"
    /\ candidates' = extract_objects(cleaned)
    /\ pc' = "remove_redundancy"
    /\ UNCHANGED <<input_file, sql_text, cleaned, objects, categories, sp_list,
                   config, report, shown, log, exc, hash_seed, run, first>>

\* Line 169.
RemoveRedundancy ==
    /\ pc = "remove_redundancy"
    /\ objects' = remove_redundancy(candidates)
    /\ pc' = "categorize"
    /\ UNCHANGED <<input_file, sql_text, cleaned, candidates, categories, sp_list,
                   config, report, shown, log, exc, hash_seed, run, first>>

\* Line 170.
Categorize ==
    /\ pc = "categorize"
    /\ categories' = categorize(objects)
    /\ pc' = "extract_stored_procedures"
    /\ UNCHANGED <<input_file, sql_text, cleaned, candidates, objects, sp_list,
                   config, report, shown, log, exc, hash_seed, run, first>>

\* Lines 172 to 173.
ExtractStoredProcedures ==
    /\ pc = "extract_stored_procedures"
    /\ sp_list' = extract_stored_procedures(cleaned)
    /\ categories' = SetItem(categories, "STORED_PROCEDURES", sp_list')
    /\ pc' = "save_output"
    /\ UNCHANGED <<input_file, sql_text, cleaned, candidates, objects, config,
                   report, shown, log, exc, hash_seed, run, first>>

\* Lines 175 to 176: save_output writes the report; open or write can raise.
SaveOutput ==
    /\ pc = "save_output"
    /\ \/ /\ report' = save_output(categories)
          /\ log' = log \o <<"Output saved">>
          /\ pc' = "showinfo"
          /\ UNCHANGED exc
       \/ /\ Raise("save_output")
          /\ UNCHANGED <<report, log>>
    /\ UNCHANGED <<input_file, sql_text, cleaned, candidates, objects, categories,
                   sp_list, config, shown, hash_seed, run, first>>

\* Lines 178 to 186: the "Extraction Completed" box.
ShowInfo ==
    /\ pc = "showinfo"
    /\ shown' = Append(shown, "info")
    /\ log' = log \o <<"Completed Successfully">>
    /\ pc' = "done"
    /\ UNCHANGED <<input_file, sql_text, cleaned, candidates, objects, categories,
                   sp_list, config, report, exc, hash_seed, run, first>>

\* An except clause that logs the error and shows no box.
Except_silent ==
    /\ pc = "except"
    /\ log' = log \o <<"ERROR occurred", exc>>
    /\ pc' = "done"
    /\ UNCHANGED <<input_file, sql_text, cleaned, candidates, objects, categories,
                   sp_list, config, report, shown, exc, hash_seed, run, first>>

\* Lines 188 to 199: the except clause logs the error and shows the
\* "Extraction Failed" box, which names the log file.
Except ==
    /\ pc = "except"
    /\ log' = log \o <<"ERROR occurred", exc>>
    /\ shown' = Append(shown, "error")
    /\ pc' = "done"
    /\ UNCHANGED <<input_file, sql_text, cleaned, candidates, objects, categories,
                   sp_list, config, report, exc, hash_seed, run, first>>

\* Lines 167 to 173 run a second time on the same text, in a new process: the
\* names of main are unbound again and the string hashes have a new seed.
Rerun ==
    /\ pc = "save_output"
    /\ run = 1
    /\ run' = 2
    /\ first' = [categories |-> categories, sp_list |-> sp_list]
    /\ hash_seed' \in Seeds
    /\ cleaned' = ""
    /\ candidates' = {}
    /\ objects' = {}
    /\ categories' = EmptyDict
    /\ sp_list' = <<>>
    /\ pc' = "clean_sql"
    /\ UNCHANGED <<input_file, sql_text, config, report, shown, log, exc>>

-----------------------------------------------------------------------------
(* Specifications *)

\* What every specification starts from, but for pc and its input.
Blank ==
    /\ config = EmptyDict
    /\ report = "none"
    /\ shown = <<>>
    /\ log = <<>>
    /\ exc = "none"
    /\ run = 1
    /\ first = "none"

\* A run of the script.
Init ==
    /\ Blank
    /\ hash_seed \in Seeds
    /\ pc = "load_config"
    /\ input_file \in InputFiles
    /\ sql_text = ""
    /\ cleaned = ""
    /\ candidates = {}
    /\ objects = {}
    /\ categories = EmptyDict
    /\ sp_list = <<>>

Next ==
    \/ LoadConfig
    \/ ReadConfig
    \/ MakeDirs
    \/ ReadInput
    \/ CleanSql
    \/ ExtractObjects
    \/ RemoveRedundancy
    \/ Categorize
    \/ ExtractStoredProcedures
    \/ SaveOutput
    \/ ShowInfo
    \/ Except

Spec == Init /\ [][Next]_vars

\* The pipeline (lines 167 to 173) run twice on one text.
InitTwice ==
    /\ Blank
    /\ hash_seed \in Seeds
    /\ pc = "clean_sql"
    /\ input_file = ""
    /\ sql_text \in RerunTexts
    /\ cleaned = ""
    /\ candidates = {}
    /\ objects = {}
    /\ categories = EmptyDict
    /\ sp_list = <<>>

NextTwice ==
    \/ CleanSql
    \/ ExtractObjects
    \/ RemoveRedundancy
    \/ Categorize
    \/ ExtractStoredProcedures
    \/ Rerun

SpecTwice == InitTwice /\ [][NextTwice]_vars

\* clean_sql on its own.
InitCleanSql ==
    /\ Blank
    /\ hash_seed = 0
    /\ pc = "clean_sql"
    /\ input_file = ""
    /\ sql_text \in CommentTexts
    /\ cleaned = ""
    /\ candidates = {}
    /\ objects = {}
    /\ categories = EmptyDict
    /\ sp_list = <<>>

SpecCleanSql == InitCleanSql /\ [][CleanSql]_vars

\* clean_sql, then extract_objects.
InitComments ==
    /\ Blank
    /\ hash_seed = 0
    /\ pc = "clean_sql"
    /\ input_file = ""
    /\ sql_text \in CommentedTexts
    /\ cleaned = ""
    /\ candidates = {}
    /\ objects = {}
    /\ categories = EmptyDict
    /\ sp_list = <<>>

NextComments == CleanSql \/ ExtractObjects

SpecComments == InitComments /\ [][NextComments]_vars

\* extract_objects on its own.
InitExtract ==
    /\ Blank
    /\ hash_seed = 0
    /\ pc = "extract_objects"
    /\ input_file = ""
    /\ sql_text = ""
    /\ cleaned \in SqlTexts
    /\ candidates = {}
    /\ objects = {}
    /\ categories = EmptyDict
    /\ sp_list = <<>>

SpecExtract == InitExtract /\ [][ExtractObjects]_vars

\* remove_redundancy on its own.
InitResolve ==
    /\ Blank
    /\ hash_seed = 0
    /\ pc = "remove_redundancy"
    /\ input_file = ""
    /\ sql_text = ""
    /\ cleaned = ""
    /\ candidates \in CandidateSets
    /\ objects = {}
    /\ categories = EmptyDict
    /\ sp_list = <<>>

SpecResolve == InitResolve /\ [][RemoveRedundancy]_vars

\* categorize on its own.
InitCategorize ==
    /\ Blank
    /\ hash_seed \in Seeds
    /\ pc = "categorize"
    /\ input_file = ""
    /\ sql_text = ""
    /\ cleaned = ""
    /\ candidates = {}
    /\ objects \in ObjectSets
    /\ categories = EmptyDict
    /\ sp_list = <<>>

SpecCategorize == InitCategorize /\ [][Categorize]_vars

\* extract_stored_procedures on its own.
InitProcedures ==
    /\ Blank
    /\ hash_seed \in Seeds
    /\ pc = "extract_stored_procedures"
    /\ input_file = ""
    /\ sql_text = ""
    /\ cleaned \in ProcTexts
    /\ candidates = {}
    /\ objects = {}
    /\ categories = EmptyDict
    /\ sp_list = <<>>

SpecProcedures == InitProcedures /\ [][ExtractStoredProcedures]_vars

-----------------------------------------------------------------------------
(* remove_redundancy: C1, C10 (SpecResolve) *)

\* C1: the set remove_redundancy returns holds no bare name X (no dot) together
\* with a schema-qualified name whose final dot-segment is X.
C1_QualifiedWins ==
    pc = "categorize" =>
        \A x \in objects : \A q \in objects :
            ~(~HasDot(x) /\ HasDot(q) /\ LastSegment(q) = x)

\* The input held a bare name and a qualified name for the same leaf, and the
\* result holds the qualified one only (SALES.ORDERS and ORDERS).
C1_Witness ==
    /\ pc = "categorize"
    /\ {"S.A", "A"} \subseteq candidates
    /\ "S.A" \in objects
    /\ "A" \notin objects

\* C10: remove_redundancy returns a subset of its input that keeps every
\* schema-qualified name; every name it drops is a bare name equal to the final
\* dot-segment of a qualified name it keeps; so the final segments of the input
\* and of the output are the same, and remove_redundancy of the output is the
\* output.
C10_DropsOnlyShadowedBareNames ==
    pc = "categorize" =>
        /\ objects \subseteq candidates
        /\ \A q \in candidates : HasDot(q) => q \in objects
        /\ \A d \in candidates \ objects :
              /\ ~HasDot(d)
              /\ \E q \in objects : HasDot(q) /\ LastSegment(q) = d
        /\ { LastSegment(o) : o \in candidates } = { LastSegment(o) : o \in objects }
        /\ remove_redundancy(objects) = objects

\* A bare name was dropped and another bare name was kept.
C10_Witness ==
    /\ pc = "categorize"
    /\ \E d \in candidates \ objects : ~HasDot(d)
    /\ \E k \in objects : ~HasDot(k)
    /\ \E q \in objects : HasDot(q)

-----------------------------------------------------------------------------
(* categorize: C2 (SpecCategorize) *)

PrefixOrder == <<"LP_", "DDT_", "E_", "SA_", "DW_">>
PrefixLabels == <<"LP_OBJECTS", "DDT_OBJECTS", "E_OBJECTS", "SA_OBJECTS", "DW_OBJECTS">>

\* The category of the first prefix, in the fixed order, that starts the final
\* dot-segment of name; the catch-all when none does.
FirstPrefixCategory(name) ==
    LET hits == { k \in DOMAIN PrefixOrder : StartsWith(LastSegment(name), PrefixOrder[k]) }
    IN  IF hits = {} THEN "OTHER Table/Views/SP's"
        ELSE PrefixLabels[CHOOSE k \in hits : \A j \in hits : k <= j]

\* The places (category, index) where name stands in the dict.
PlacesOf(dict, name) ==
    { <<i, j>> \in (DOMAIN dict) \X (1..Cardinality(objects)) :
        j \in DOMAIN dict[i].value /\ dict[i].value[j] = name }

\* C2: categorize puts each object in exactly one category list, exactly once;
\* that category is the one of the first prefix (LP_, DDT_, E_, SA_, DW_) that
\* starts the object's final dot-segment, or the catch-all; and the lists together
\* hold the input set and nothing else.
C2_OneCategoryEach ==
    pc = "extract_stored_procedures" =>
        /\ \A name \in objects :
              /\ Cardinality(PlacesOf(categories, name)) = 1
              /\ \A place \in PlacesOf(categories, name) :
                    categories[place[1]].key = FirstPrefixCategory(name)
        /\ UNION { Range(categories[i].value) : i \in DOMAIN categories } = objects
        /\ \A i \in DOMAIN categories : \A j \in DOMAIN categories :
              categories[i].key = categories[j].key => i = j

\* LP_DW_STAGE and X.LP_DW_STAGE were categorized, both under LP_OBJECTS.
C2_Witness ==
    /\ pc = "extract_stored_procedures"
    /\ objects = {"LP_DW_STAGE", "X.LP_DW_STAGE"}
    /\ Keys(categories) = {"LP_OBJECTS"}

-----------------------------------------------------------------------------
(* extract_objects: C3, C4 (SpecExtract) *)

\* C3: no name extract_objects returns has a final dot-segment that is in
\* BLOCK_KEYWORDS.
C3_NoKeywordNames ==
    pc = "remove_redundancy" =>
        \A name \in candidates : LastSegment(name) \notin BLOCK_KEYWORDS

\* A rule captured a reserved word, alone and as the last segment of a qualified
\* name ("delete from Where", "from s.Where"), and nothing was returned.
C3_Witness ==
    /\ pc = "remove_redundancy"
    /\ cleaned \in {"delete from Where", "from s.Where"}
    /\ candidates = {}

\* The name a rule captures when it matches at position i of t.
NameAt(t, i, k) ==
    Upper(SubSeq(t, RuleAt(t, i, k), RunEnd(t, RuleAt(t, i, k), IdentChars) - 1))

\* The position after the match of rule k at position i of t.
MatchEnd(t, i, k) == RunEnd(t, RuleAt(t, i, k), IdentChars)

\* C4 as stated: the set extract_objects returns is the union, over the eleven
\* rules, of what each rule captures when it is applied to the whole text on its
\* own.
C4_RulesIndependent ==
    pc = "remove_redundancy" =>
        candidates = UNION { ObjectsOf(cleaned, FindAll(cleaned, 1, {k})) : k \in Rules }

\* C4 as amended: the rules are the alternatives of one scan whose matches do not
\* overlap.  Every name returned is captured by some rule at some position of the
\* text; and what a rule captures at a position is returned (unless its final
\* segment is a reserved word) when that position does not lie inside the match
\* of a rule at an earlier position.
C4_OneScan ==
    pc = "remove_redundancy" =>
        /\ \A name \in candidates :
              \E i \in 1..Len(cleaned) : \E k \in Rules :
                  RuleAt(cleaned, i, k) # 0 /\ NameAt(cleaned, i, k) = name
        /\ \A i \in 1..Len(cleaned) : \A k \in Rules :
              RuleAt(cleaned, i, k) # 0 =>
                  \/ NameAt(cleaned, i, k) \in candidates
                  \/ LastSegment(NameAt(cleaned, i, k)) \in BLOCK_KEYWORDS
                  \/ \E j \in 1..(i - 1) : \E h \in Rules :
                        RuleAt(cleaned, j, h) # 0 /\ i < MatchEnd(cleaned, j, h)

\* The match of the from rule took "join" as its identifier, and the x that
\* follows join was not captured.
C4_Witness ==
    /\ pc = "remove_redundancy"
    /\ cleaned = "from join x"
    /\ candidates = {"JOIN"}

-----------------------------------------------------------------------------
(* clean_sql, then extract_objects: C5 (SpecComments) *)

\* The positions of t that are in a comment, read from left to right: a block
\* comment runs from a "/*" to the nearest "*/" after it, a line comment from a
\* "--" to the end of its line.
RECURSIVE CommentPositions(_, _)
CommentPositions(t, i) ==
    IF i > Len(t) THEN {}
    ELSE LET close == IF HasAt(t, "/*", i) THEN Find(t, "*/", i + 2) ELSE 0
         IN  IF close # 0 THEN (i..(close + 1)) \cup CommentPositions(t, close + 2)
             ELSE IF HasAt(t, "--", i)
                  THEN (i..(LineEnd(t, i) - 1)) \cup CommentPositions(t, LineEnd(t, i))
                  ELSE CommentPositions(t, i + 1)

\* C5 as stated: of the references (keyword phrase and identifier) in the raw
\* text, one that lies wholly inside a comment contributes no name (its name is
\* returned only if a reference not inside a comment has it too), and one that
\* lies outside every comment has its name returned.
C5_CommentsIgnored ==
    pc = "remove_redundancy" =>
        LET refs    == FindAll(sql_text, 1, Rules)
            inside  == CommentPositions(sql_text, 1)
            span(r) == refs[r].start..(refs[r].end - 1)
            name(r) == ObjectName(Captured(sql_text, refs[r]))
        IN  /\ \A r \in DOMAIN refs :
                  (span(r) \subseteq inside /\ name(r) \in candidates) =>
                      \E q \in DOMAIN refs : ~(span(q) \subseteq inside) /\ name(q) = name(r)
            /\ \A r \in DOMAIN refs :
                  (span(r) \cap inside = {} /\ LastSegment(name(r)) \notin BLOCK_KEYWORDS) =>
                      name(r) \in candidates

-----------------------------------------------------------------------------
(* extract_stored_procedures: C6 (SpecProcedures) *)

\* C6: extract_stored_procedures returns the upper-cased names that follow
\* CREATE [OR REPLACE] PROCEDURE and those that follow EXEC, EXECUTE or CALL, in
\* strictly ascending order (so without duplicates); a name defined and called
\* in whatever letter case is there once.
C6_SortedUnion ==
    pc = "save_output" =>
        LET created == FindAllProcs(cleaned, 1, "create")
            called  == FindAllProcs(cleaned, 1, "call")
        IN  /\ \A i \in DOMAIN sp_list : \A j \in DOMAIN sp_list :
                  i < j => StrLess(sp_list[i], sp_list[j])
            /\ \A i \in DOMAIN sp_list : \A j \in DOMAIN sp_list :
                  Lower(sp_list[i]) = Lower(sp_list[j]) => i = j
            /\ Range(sp_list) = { Upper(c) : c \in Range(created) \cup Range(called) }

\* A procedure defined in lower case and called in upper case is listed once.
C6_Witness ==
    /\ pc = "save_output"
    /\ cleaned = "create or replace procedure sp exec SP "
    /\ sp_list = <<"SP">>

-----------------------------------------------------------------------------
(* The pipeline run twice: C7 (SpecTwice) *)

\* The mapping a dict stands for, the order of its keys put aside.
AsMapping(dict) == [ key \in Keys(dict) |-> Get(dict, key) ]

\* How many times x is in the list xs.
Count(xs, x) == Cardinality({ i \in DOMAIN xs : xs[i] = x })

\* Whether two lists hold the same elements the same number of times.
SameElements(xs, ys) ==
    /\ Len(xs) = Len(ys)
    /\ \A x \in Range(xs) \cup Range(ys) : Count(xs, x) = Count(ys, x)

\* C7 as stated: the second run ends with the categories (as a mapping from
\* label to list) and the sp_list the first run ended with.
C7_SameResult ==
    (run = 2 /\ pc = "save_output") =>
        /\ AsMapping(categories) = AsMapping(first.categories)
        /\ sp_list = first.sp_list

\* C7 as amended: the second run ends with the same labels, under each label the
\* same names (in whatever order), and the same sp_list.
C7_SameResultUpToOrder ==
    (run = 2 /\ pc = "save_output") =>
        /\ Keys(categories) = Keys(first.categories)
        /\ \A key \in Keys(categories) :
              SameElements(Get(categories, key), Get(first.categories, key))
        /\ sp_list = first.sp_list

\* The two runs listed the names of a category in different orders, and found
\* the same procedure.
C7_Witness ==
    /\ run = 2
    /\ pc = "save_output"
    /\ AsMapping(categories) # AsMapping(first.categories)
    /\ sp_list = <<"SP">>

-----------------------------------------------------------------------------
(* main: C8 (Spec) *)

\* C8: a run in which a statement up to and including save_output raised ends
\* with the failure box and nothing else shown; the success box is shown only
\* once save_output has written the report of this run, and a run ends with
\* exactly one box.
C8_FailureIsReported ==
    /\ (pc = "done" /\ exc # "none") => shown = <<"error">>
    /\ "info" \in Range(shown) =>
          /\ exc = "none"
          /\ "Output saved" \in Range(log)
          /\ report = save_output(categories)
    /\ pc = "done" => Len(shown) = 1
    /\ pc # "done" => shown = <<>>

\* save_output raised, and the run ended with the failure box alone.
C8_Witness ==
    /\ pc = "done"
    /\ exc = "save_output"
    /\ shown = <<"error">>
    /\ report = "none"

-----------------------------------------------------------------------------
(* clean_sql: C9 (SpecCleanSql) *)

\* Whether t holds a "/*" with a "*/" after it.
HasBlockComment(t) ==
    \E i \in 1..Len(t) : HasAt(t, "/*", i) /\ Find(t, "*/", i + 2) # 0

\* C9: the output of clean_sql holds no "--" and no "/*" with a "*/" after it,
\* so that clean_sql leaves it as it is.
C9_NoCommentLeft ==
    pc = "extract_objects" =>
        /\ Find(cleaned, "--", 1) = 0
        /\ ~HasBlockComment(cleaned)
        /\ clean_sql(cleaned) = cleaned

=============================================================================
